---------------------------- MODULE Spec2Model ----------------------------
(***************************************************************************)
(* Model of wolff.filter_pd (src/wolff/wolff.py; src/src/wolff/wolff.py is *)
(* an identical copy of the same function): the boolean row filter that    *)
(* compiles a disjunction of conjunctions of (field, operator, operand)    *)
(* triples into a selection mask over a pandas DataFrame / Series and      *)
(* applies it.  pandas is pinned to 1.4.4 by src/setup.py; the pandas      *)
(* operations filter_pd calls are modelled by what they do on the values   *)
(* the model draws (numbers, text, null).  A second specification models   *)
(* how SqlServerTable.describe (src/wolff/sql_server_table_profiler.py)    *)
(* turns its `sample` argument into a sample size.                         *)
(***************************************************************************)
EXTENDS Integers, Sequences, FiniteSets, TLC

VARIABLES df, filters, pc, outcome, passed, row_count, sample, described

vars == <<df, filters, pc, outcome, passed, row_count, sample, described>>

(***************************************************************************)
(* Bounds of the model.                                                    *)
(***************************************************************************)
MaxRows == 2

(* Largest row count of a profiled table.                                  *)
MaxTableRows == 10

(* Longest text passed as `sample`.                                        *)
MaxSampleLen == 4

(***************************************************************************)
(* Values held by a dataset or used as operands.  A value is a number, a   *)
(* text (a sequence of one-character strings) or null (NaN / None).        *)
(***************************************************************************)
Null == [t |-> "null", n |-> 0, s |-> <<>>]

Num(i) == [t |-> "num", n |-> i, s |-> <<>>]

Str(cs) == [t |-> "str", n |-> 0, s |-> cs]

IsNull(v) == v.t = "null"

(* Names of index levels and of a series: a string, or None (unnamed).     *)
NoName == [some |-> FALSE, s |-> ""]

Name(s) == [some |-> TRUE, s |-> s]

(* A value vector with its dtype: "num" (int64/float64) or "obj" (object). *)
Vec(dtype, vs) == [dtype |-> dtype, v |-> vs]

(***************************************************************************)
(* Datasets.  A dataset is a DataFrame (kind "frame": named columns) or a  *)
(* bare Series (kind "series": one value axis with an optional name); both *)
(* carry an index of one or more levels, each with a name or None.         *)
(***************************************************************************)
MkFrame(inames, ilevels, cnames, cdata) ==
    [kind |-> "frame", index_names |-> inames, index |-> ilevels,
     columns |-> cnames, data |-> cdata, name |-> NoName,
     values |-> Vec("obj", <<>>)]

MkSeries(inames, ilevels, sname, svalues) ==
    [kind |-> "series", index_names |-> inames, index |-> ilevels,
     columns |-> <<>>, data |-> <<>>, name |-> sname, values |-> svalues]

NRows(d) == Len(d.index[1].v)

(* The rows the model draws datasets from: id and grp are never null (they *)
(* serve as index labels), age is numeric or null, name is text or null.   *)
RowPool ==
    { [id |-> Num(1), grp |-> Str(<<"a">>), age |-> Num(1), name |-> Str(<<"a">>)],
      [id |-> Num(2), grp |-> Str(<<"b">>), age |-> Num(2), name |-> Str(<<"a", "b">>)],
      [id |-> Num(1), grp |-> Str(<<"b">>), age |-> Null,   name |-> Str(<<"b", "1">>)],
      [id |-> Num(2), grp |-> Str(<<"a">>), age |-> Num(2), name |-> Null] }

RowSeqs == UNION { [1..n -> RowPool] : n \in 0..MaxRows }

Field(rs, f) == [i \in 1..Len(rs) |-> rs[i][f]]

(* pd.RangeIndex: the default, unnamed index 0..n-1.                       *)
RangeIndex(rs) == Vec("num", [i \in 1..Len(rs) |-> Num(i - 1)])

Layouts ==
    { "frame", "frame_id", "frame_agekey", "frame_multi", "frame_blank",
      "series_age", "series_unnamed", "series_idkey" }

Build(layout, rs) ==
    LET ids   == Vec("num", Field(rs, "id"))
        grps  == Vec("obj", Field(rs, "grp"))
        ages  == Vec("num", Field(rs, "age"))
        names == Vec("obj", Field(rs, "name"))
        cols  == <<"age", "name">>
        data  == <<ages, names>>
    IN  CASE layout = "frame" ->
               MkFrame(<<NoName>>, <<RangeIndex(rs)>>, cols, data)
          [] layout = "frame_id" ->
               MkFrame(<<Name("id")>>, <<ids>>, cols, data)
          [] layout = "frame_agekey" ->
               MkFrame(<<Name("age")>>, <<ids>>, cols, data)
          [] layout = "frame_multi" ->
               MkFrame(<<Name("id"), Name("grp")>>, <<ids, grps>>, cols, data)
          [] layout = "frame_blank" ->
               MkFrame(<<Name("")>>, <<ids>>, cols, data)
          [] layout = "series_age" ->
               MkSeries(<<NoName>>, <<RangeIndex(rs)>>, Name("age"), ages)
          [] layout = "series_unnamed" ->
               MkSeries(<<Name("id")>>, <<ids>>, NoName, names)
          [] layout = "series_idkey" ->
               MkSeries(<<Name("id")>>, <<ids>>, Name("id"), ages)

Datasets == { Build(l, rs) : l \in Layouts, rs \in RowSeqs }

(***************************************************************************)
(* Python / pandas primitives used by the operator table.                  *)
(***************************************************************************)
Digit(d) ==
    CASE d = 0 -> "0" [] d = 1 -> "1" [] d = 2 -> "2" [] d = 3 -> "3"
      [] d = 4 -> "4" [] d = 5 -> "5" [] d = 6 -> "6" [] d = 7 -> "7"
      [] d = 8 -> "8" [] d = 9 -> "9"

RECURSIVE DecStr(_)
DecStr(n) == IF n < 10 THEN <<Digit(n)>> ELSE Append(DecStr(n \div 10), Digit(n % 10))

(* str(y): the operand's string representation.                            *)
PyStr(y) ==
    CASE y.t = "str" -> y.s
      [] y.t = "num" -> IF y.n < 0 THEN <<"-">> \o DecStr(-y.n) ELSE DecStr(y.n)
      [] y.t = "null" -> <<"n", "a", "n">>

(* Code points of the characters the model's texts are written with.       *)
Ord(c) ==
    CASE c = "-" -> 45 [] c = "." -> 46 [] c = "0" -> 48 [] c = "1" -> 49
      [] c = "2" -> 50 [] c = "3" -> 51 [] c = "4" -> 52 [] c = "5" -> 53
      [] c = "6" -> 54 [] c = "7" -> 55 [] c = "8" -> 56 [] c = "9" -> 57
      [] c = "a" -> 97 [] c = "b" -> 98 [] c = "n" -> 110

(* Python's lexicographic order on str.                                    *)
StrLess(a, b) ==
    \E k \in 1..(Len(b)) :
        /\ \A j \in 1..(k - 1) : j <= Len(a) /\ a[j] = b[j]
        /\ Len(a) >= k - 1
        /\ \/ Len(a) = k - 1
           \/ Len(a) >= k /\ Ord(a[k]) < Ord(b[k])

(* re.search(pat, text) for patterns over the model's characters: every    *)
(* character is a literal except ".", which matches any one character      *)
(* (Series.str.contains defaults to regex=True).                           *)
ReSearch(pat, text) ==
    \E start \in 0..(Len(text) - Len(pat)) :
        \A k \in 1..Len(pat) : pat[k] = "." \/ pat[k] = text[start + k]

(* A scalar operand, or a collection of scalars.                           *)
Scalar(v) == [k |-> "scalar", v |-> v, vs |-> {}]

Coll(vs) == [k |-> "list", v |-> Null, vs |-> vs]

(* Element-wise results.  A mask is carried by an ndarray ("nd": computed  *)
(* from an Index), a Series ("ser") or, when the operator was applied to a *)
(* whole DataFrame, a DataFrame ("frame": one vector per column).  Entries *)
(* are "T", "F" or "N" (NaN in an object-dtype result).                    *)
Bool(b) == IF b THEN "T" ELSE "F"

VecMask(c, m) == [c |-> c, m |-> m, fm |-> <<>>]

FrameMask(fm) == [c |-> "frame", m |-> <<>>, fm |-> fm]

NoMask == VecMask("nd", <<>>)

Ok(mask) == [exc |-> "", arg |-> "", mask |-> mask]

Raise(exc, arg) == [exc |-> exc, arg |-> arg, mask |-> NoMask]

(* x == y, x > y, ... of one element against a scalar: null compares False *)
(* under every operator of the table; values of different types are        *)
(* unequal and cannot be ordered.                                          *)
Orderable(x, y) == x.t = y.t

CmpElem(rel, x, y) ==
    IF IsNull(x) \/ IsNull(y) THEN FALSE
    ELSE CASE rel = "eq" -> x = y
           [] rel = "gt" -> IF x.t = "num" THEN x.n > y.n ELSE StrLess(y.s, x.s)
           [] rel = "ge" -> IF x.t = "num" THEN x.n >= y.n ELSE ~StrLess(x.s, y.s)
           [] rel = "lt" -> IF x.t = "num" THEN x.n < y.n ELSE StrLess(x.s, y.s)
           [] rel = "le" -> IF x.t = "num" THEN x.n <= y.n ELSE ~StrLess(y.s, x.s)

(* An ordering comparison raises TypeError as soon as one non-null element *)
(* has another type than the operand.                                      *)
CmpFails(rel, xs, y) ==
    /\ rel # "eq"
    /\ ~IsNull(y)
    /\ \E i \in 1..Len(xs) : ~IsNull(xs[i]) /\ ~Orderable(xs[i], y)

CmpVec(rel, xs, y) == [i \in 1..Len(xs) |-> Bool(CmpElem(rel, xs[i], y))]

IsinVec(xs, ys) == [i \in 1..Len(xs) |-> Bool(xs[i] \in ys)]

(* Series.str.contains(pat): NaN for a null element of an object vector.   *)
ContainsVec(xs, pat) ==
    [i \in 1..Len(xs) |->
        IF xs[i].t = "str" THEN Bool(ReSearch(pat, xs[i].s)) ELSE "N"]

HasNA(m) == \E i \in 1..Len(m) : m[i] = "N"

(* ~mask on a boolean result.                                              *)
InvertVec(m) == [i \in 1..Len(m) |-> IF m[i] = "T" THEN "F" ELSE "T"]

(***************************************************************************)
(* The object a predicate's field resolves to: the values of an index      *)
(* level (an Index), a column or the series itself (a Series), or the      *)
(* whole DataFrame.                                                        *)
(***************************************************************************)
IndexObj(vec) == [c |-> "nd", vec |-> vec, cols |-> <<>>]

SeriesObj(vec) == [c |-> "ser", vec |-> vec, cols |-> <<>>]

FrameObj(data) == [c |-> "frame", vec |-> Vec("obj", <<>>), cols |-> data]

(* oper.eq / gt / ge / lt / le (x, y) with a scalar y.                     *)
Compare(rel, x, y) ==
    IF x.c = "frame"
    THEN IF \E j \in 1..Len(x.cols) : CmpFails(rel, x.cols[j].v, y.v)
         THEN Raise("TypeError", "")
         ELSE Ok(FrameMask([j \in 1..Len(x.cols) |-> CmpVec(rel, x.cols[j].v, y.v)]))
    ELSE IF CmpFails(rel, x.vec.v, y.v)
         THEN Raise("TypeError", "")
         ELSE Ok(VecMask(x.c, CmpVec(rel, x.vec.v, y.v)))

(* x.isin(y): y must be list-like.                                         *)
Isin(x, y) ==
    IF y.k # "list" THEN Raise("TypeError", "")
    ELSE IF x.c = "frame"
         THEN Ok(FrameMask([j \in 1..Len(x.cols) |-> IsinVec(x.cols[j].v, y.vs)]))
         ELSE Ok(VecMask(x.c, IsinVec(x.vec.v, y.vs)))

(* x.str.contains(str(y)): a DataFrame has no .str, and .str is refused on *)
(* a vector that is not of object dtype.                                   *)
Contains(x, y) ==
    IF x.c = "frame" \/ x.vec.dtype # "obj" THEN Raise("AttributeError", "str")
    ELSE Ok(VecMask(x.c, ContainsVec(x.vec.v, PyStr(y.v))))

(* ~r: unary invert of a frame or vector result; an object-dtype result    *)
(* holding NaN cannot be inverted.                                         *)
Invert(r) ==
    IF r.exc # "" THEN r
    ELSE IF r.mask.c = "frame"
         THEN Ok(FrameMask([j \in 1..Len(r.mask.fm) |-> InvertVec(r.mask.fm[j])]))
         ELSE IF HasNA(r.mask.m) THEN Raise("TypeError", "")
              ELSE Ok(VecMask(r.mask.c, InvertVec(r.mask.m)))

NotInSkipNull(x, y) ==
    IF y.k # "list" THEN Raise("TypeError", "")
    ELSE IF x.c = "frame"
         THEN Ok(FrameMask([j \in 1..Len(x.cols) |->
                 [i \in 1..Len(x.cols[j].v) |->
                     Bool(~IsNull(x.cols[j].v[i]) /\ x.cols[j].v[i] \notin y.vs)]]))
         ELSE Ok(VecMask(x.c, [i \in 1..Len(x.vec.v) |->
                 Bool(~IsNull(x.vec.v[i]) /\ x.vec.v[i] \notin y.vs)]))

NotIn(x, y) == Invert(Isin(x, y))

NotContains(x, y) == Invert(Contains(x, y))

OperatorKeys ==
    {"=", "==", ">", ">=", "<", "<=", "in", "not in", "contains", "not contains"}

OperatorOrEquality(op, x, y) ==
    CASE op = ">" -> Compare("gt", x, y)
      [] op = ">=" -> Compare("ge", x, y)
      [] op = "<" -> Compare("lt", x, y)
      [] op = "<=" -> Compare("le", x, y)
      [] op = "in" -> Isin(x, y)
      [] op = "not in" -> NotIn(x, y)
      [] op = "contains" -> Contains(x, y)
      [] op = "not contains" -> NotContains(x, y)
      [] OTHER -> Compare("eq", x, y)

(* operator_factory[op](series, val); a missing key raises KeyError.       *)
operator_factory(op, x, y) ==
    IF op \notin OperatorKeys THEN Raise("KeyError", op)
    ELSE CASE op \in {"=", "=="} -> Compare("eq", x, y)
           [] op = ">" -> Compare("gt", x, y)
           [] op = ">=" -> Compare("ge", x, y)
           [] op = "<" -> Compare("lt", x, y)
           [] op = "<=" -> Compare("le", x, y)
           [] op = "in" -> Isin(x, y)
           [] op = "not in" -> NotIn(x, y)
           [] op = "contains" -> Contains(x, y)
           [] op = "not contains" -> NotContains(x, y)

(***************************************************************************)
(* oper.and_ / oper.or_ on two element-wise results (pandas logical_op).   *)
(* Two ndarrays combine as numpy booleans.  Otherwise the Series operand   *)
(* is pandas' left side (a reflected call when the ndarray stands first):  *)
(* NaN of the other side is filled with False before the operation, and an *)
(* entry whose left side is NaN comes out NaN and is filled with False     *)
(* afterwards.                                                             *)
(***************************************************************************)
BoolOp(op, a, b) ==
    IF op = "and" THEN Bool(a = "T" /\ b = "T") ELSE Bool(a = "T" \/ b = "T")

LogicalVec(op, self, other) ==
    [i \in 1..Len(self) |->
        IF self[i] = "N" THEN "F"
        ELSE BoolOp(op, self[i], IF other[i] = "N" THEN "F" ELSE other[i])]

LogicalOp(op, l, r) ==
    CASE l.c = "nd" /\ r.c = "nd" ->
             VecMask("nd", [i \in 1..Len(l.m) |-> BoolOp(op, l.m[i], r.m[i])])
      [] l.c = "ser" /\ r.c \in {"nd", "ser"} ->
             VecMask("ser", LogicalVec(op, l.m, r.m))
      [] l.c = "nd" /\ r.c = "ser" ->
             VecMask("ser", LogicalVec(op, r.m, l.m))

(* functools.reduce(op, members) without an initial value.                 *)
RECURSIVE ReduceFrom(_, _, _, _)
ReduceFrom(op, members, k, acc) ==
    IF k > Len(members) THEN acc
    ELSE ReduceFrom(op, members, k + 1, LogicalOp(op, acc, members[k]))

Reduce(op, members) ==
    IF Len(members) = 0 THEN Raise("TypeError", "reduce")
    ELSE Ok(ReduceFrom(op, members, 2, members[1]))

AllOfAsAny(members) == Reduce("or", members)

(* reduce(oper.and_, conjunction_members)                                  *)
AllOf(members) == Reduce("and", members)

AnyOfAsAll(members) == Reduce("and", members)

(* reduce(oper.or_, disjunction_members)                                   *)
AnyOf(members) == Reduce("or", members)

(***************************************************************************)
(* Field resolution (filter_pd, the if / elif chain on col).               *)
(***************************************************************************)
indice_names(d) == d.index_names

column_names(d) == IF d.kind = "series" THEN <<>> ELSE d.columns

SeriesNameBlankIfUnnamed(d) ==
    IF d.kind = "series" /\ d.name # NoName THEN d.name ELSE Name("")

(* A variant where a DataFrame has no series name at all.                  *)
SeriesNameOnlyForSeries(d) == IF d.kind = "series" THEN d.name ELSE NoName

series_name(d) == IF d.kind = "series" THEN d.name ELSE Name("")

InSeq(x, xs) == \E i \in 1..Len(xs) : xs[i] = x

PosIn(x, xs) == CHOOSE i \in 1..Len(xs) : xs[i] = x

ResolveColumnsFirst(d, col) ==
    IF InSeq(col, column_names(d))
    THEN [exc |-> "", via |-> "column",
          obj |-> SeriesObj(d.data[PosIn(col, column_names(d))])]
    ELSE IF Name(col) = series_name(d)
    THEN [exc |-> "", via |-> "self",
          obj |-> IF d.kind = "series" THEN SeriesObj(d.values) ELSE FrameObj(d.data)]
    ELSE IF InSeq(Name(col), indice_names(d))
    THEN [exc |-> "", via |-> "index",
          obj |-> IndexObj(d.index[PosIn(Name(col), indice_names(d))])]
    ELSE [exc |-> "ValueError", via |-> "", obj |-> IndexObj(Vec("obj", <<>>))]

Resolve(d, col) ==
    IF InSeq(Name(col), indice_names(d))
    THEN [exc |-> "", via |-> "index",
          obj |-> IndexObj(d.index[PosIn(Name(col), indice_names(d))])]
    ELSE IF InSeq(col, column_names(d))
    THEN [exc |-> "", via |-> "column",
          obj |-> SeriesObj(d.data[PosIn(col, column_names(d))])]
    ELSE IF Name(col) = series_name(d)
    THEN [exc |-> "", via |-> "self",
          obj |-> IF d.kind = "series" THEN SeriesObj(d.values) ELSE FrameObj(d.data)]
    ELSE [exc |-> "ValueError", via |-> "", obj |-> IndexObj(Vec("obj", <<>>))]

(***************************************************************************)
(* Filter specifications as the caller passes them: None, another falsy    *)
(* object, a flat list of predicates [(,,), ..] or a list of conjunctions  *)
(* [[(,,), ..], ..].  A predicate is a (field, operator, operand) triple   *)
(* whose field is a string.                                                *)
(***************************************************************************)
Pred(col, op, val) == [col |-> col, op |-> op, val |-> val]

NoneSpec == [shape |-> "None", flat |-> <<>>, nested |-> <<>>]

FalsySpec == [shape |-> "falsy", flat |-> <<>>, nested |-> <<>>]

FlatSpec(ps) == [shape |-> "flat", flat |-> ps, nested |-> <<>>]

NestedSpec(cs) == [shape |-> "nested", flat |-> <<>>, nested |-> cs]

TruthyUnlessNone(f) == f.shape \notin {"None", "falsy"}

(* bool(filters)                                                           *)
Truthy(f) ==
    CASE f.shape = "None" -> FALSE
      [] f.shape = "falsy" -> FALSE
      [] f.shape = "flat" -> Len(f.flat) > 0
      [] f.shape = "nested" -> Len(f.nested) > 0

(* type(filters[0][0]) of a truthy specification: the first predicate's    *)
(* field in a flat list, the first predicate in a list of conjunctions;    *)
(* IndexError when the first conjunction is empty.                         *)
Item00(f) ==
    IF f.shape = "flat" THEN "str"
    ELSE IF Len(f.nested[1]) = 0 THEN "IndexError" ELSE "tuple"

NormalizeNoWrap(f) == f.nested

(* if isinstance(filters[0][0], str): filters = [filters]                  *)
Normalize(f) == IF Item00(f) = "str" THEN <<f.flat>> ELSE f.nested

(***************************************************************************)
(* Positional selection of rows.                                           *)
(***************************************************************************)
RECURSIVE Positions(_, _)
Positions(m, k) ==
    IF k > Len(m) THEN <<>>
    ELSE IF m[k] = "T" THEN <<k>> \o Positions(m, k + 1) ELSE Positions(m, k + 1)

TakeVec(vec, sel) == Vec(vec.dtype, [k \in 1..Len(sel) |-> vec.v[sel[k]]])

Take(d, sel) ==
    [d EXCEPT !.index = [l \in 1..Len(d.index) |-> TakeVec(d.index[l], sel)],
              !.data = [j \in 1..Len(d.data) |-> TakeVec(d.data[j], sel)],
              !.values = IF d.kind = "series" THEN TakeVec(d.values, sel) ELSE @]

(* DataFrame.where(mask): every row is kept, cells whose mask entry is not *)
(* True become NaN.                                                        *)
Where(d, fm) ==
    [d EXCEPT !.data = [j \in 1..Len(d.data) |->
        Vec(d.data[j].dtype,
            [i \in 1..Len(d.data[j].v) |->
                IF fm[j][i] = "T" THEN d.data[j].v[i] ELSE Null])]]

AllRows(d) == [i \in 1..NRows(d) |-> i]

NoDataset == MkSeries(<<NoName>>, <<Vec("obj", <<>>)>>, NoName, Vec("obj", <<>>))

Returned(d, sel, how, mask, visited) ==
    [ret |-> TRUE, exc |-> "", arg |-> "", site |-> "", out |-> d, sel |-> sel,
     how |-> how, mask |-> mask, visited |-> visited]

Raised(exc, arg, site, visited) ==
    [ret |-> FALSE, exc |-> exc, arg |-> arg, site |-> site, out |-> NoDataset,
     sel |-> <<>>, how |-> "", mask |-> NoMask, visited |-> visited]

TakeRows(d, sel, mask, visited) == Returned(Take(d, sel), sel, "rows", mask, visited)

(* df[mask].  A DataFrame mask selects cells (DataFrame.where).  An        *)
(* object-dtype mask holding NaN is refused: with booleans beside the NaN  *)
(* as a mask with NA (ValueError), with nothing but NaN as a list of       *)
(* labels that are not found (KeyError).                                   *)
GetItem(d, mask, visited) ==
    IF mask.c = "frame" THEN Returned(Where(d, mask.fm), AllRows(d), "where", mask, visited)
    ELSE IF HasNA(mask.m)
         THEN IF \A i \in 1..Len(mask.m) : mask.m[i] = "N"
              THEN Raised("KeyError", "", "getitem", visited)
              ELSE Raised("ValueError", "", "getitem", visited)
    ELSE TakeRows(d, Positions(mask.m, 1), mask, visited)

(***************************************************************************)
(* filter_pd.                                                              *)
(***************************************************************************)
(* The result of operator_factory[op](series, val), with the place of the  *)
(* exception: the dictionary lookup (KeyError) or the operator's call.     *)
Applied(a) ==
    [exc |-> a.exc, arg |-> a.arg, mask |-> a.mask,
     site |-> IF a.exc = "" THEN ""
              ELSE IF a.exc = "KeyError" THEN "lookup" ELSE "operator"]

(* operator_factory[op](series, val) on the resolved object r.obj, unless  *)
(* the resolution raised.                                                  *)
ApplyResolved(r, p) ==
    IF r.exc # ""
    THEN [exc |-> r.exc, arg |-> p.col, site |-> "resolve", mask |-> NoMask]
    ELSE Applied(operator_factory(p.op, r.obj, p.val))

(* One pass of the inner loop body: resolve col, then look the operator up *)
(* and apply it.                                                           *)
EvalPredicate(d, p) == ApplyResolved(Resolve(d, p.col), p)

RECURSIVE ConjunctionMembers(_, _, _, _)

(* The rest of the inner loop once the k-th predicate gave e.              *)
ConjunctionStep(d, conj, k, acc, e) ==
    IF e.exc # ""
    THEN [exc |-> e.exc, arg |-> e.arg, site |-> e.site, members |-> acc, visited |-> k]
    ELSE ConjunctionMembers(d, conj, k + 1, Append(acc, e.mask))

(* The inner loop: conjunction_members, or the first exception.            *)
ConjunctionMembers(d, conj, k, acc) ==
    IF k > Len(conj)
    THEN [exc |-> "", arg |-> "", site |-> "", members |-> acc, visited |-> Len(conj)]
    ELSE ConjunctionStep(d, conj, k, acc, EvalPredicate(d, conj[k]))

(* The conjunction's result: the AND of its members, unless the inner loop *)
(* or the reduction raised.                                                *)
ConjunctionResult(cm, red) ==
    IF cm.exc # ""
    THEN [exc |-> cm.exc, arg |-> cm.arg, site |-> cm.site, mask |-> NoMask,
          visited |-> cm.visited]
    ELSE [exc |-> red.exc, arg |-> red.arg, mask |-> red.mask, visited |-> cm.visited,
          site |-> IF red.exc # "" THEN "reduce" ELSE ""]

ReduceConjunction(cm) ==
    ConjunctionResult(cm, IF cm.exc # "" THEN Ok(NoMask) ELSE AllOf(cm.members))

(* A variant that takes a conjunction without predicates as one that       *)
(* selects no row, so that the disjunction skips it.                       *)
EvalConjunctionSkipEmpty(d, conj) ==
    IF Len(conj) = 0
    THEN [exc |-> "", arg |-> "", site |-> "", visited |-> 0,
          mask |-> VecMask("nd", [i \in 1..NRows(d) |-> "F"])]
    ELSE ReduceConjunction(ConjunctionMembers(d, conj, 1, <<>>))

EvalConjunction(d, conj) == ReduceConjunction(ConjunctionMembers(d, conj, 1, <<>>))

RECURSIVE DisjunctionMembers(_, _, _, _, _)

(* The rest of the outer loop once the c-th conjunction gave r.            *)
DisjunctionStep(d, fs, c, acc, visited, r) ==
    IF r.exc # ""
    THEN [exc |-> r.exc, arg |-> r.arg, site |-> r.site, members |-> acc,
          visited |-> visited + r.visited]
    ELSE DisjunctionMembers(d, fs, c + 1, Append(acc, r.mask), visited + r.visited)

(* The outer loop: disjunction_members, or the first exception.            *)
DisjunctionMembers(d, fs, c, acc, visited) ==
    IF c > Len(fs)
    THEN [exc |-> "", arg |-> "", site |-> "", members |-> acc, visited |-> visited]
    ELSE DisjunctionStep(d, fs, c, acc, visited, EvalConjunction(d, fs[c]))

(* return df[reduce(oper.or_, disjunction_members)]                        *)
ReturnMasked(d, red, visited) ==
    IF red.exc # "" THEN Raised(red.exc, red.arg, "reduce", visited)
    ELSE GetItem(d, red.mask, visited)

Finish(d, dm) ==
    IF dm.exc # "" THEN Raised(dm.exc, dm.arg, dm.site, dm.visited)
    ELSE ReturnMasked(d, AnyOf(dm.members), dm.visited)

filter_pd(d, f) ==
    IF ~Truthy(f) THEN Returned(d, AllRows(d), "same", NoMask, 0)
    ELSE IF Item00(f) = "IndexError" THEN Raised("IndexError", "", "normalize", 0)
    ELSE Finish(d, DisjunctionMembers(d, Normalize(f), 1, <<>>, 0))

(***************************************************************************)
(* The inputs the calls are drawn from.  FullPool is used for specs of one *)
(* predicate, MidPool for specs of two, SmallPool for the larger shapes.   *)
(* Comparison and contains operators take scalar operands, the membership  *)
(* operators take a collection (or a scalar, which isin refuses).  A       *)
(* predicate that resolves to the whole DataFrame only occurs alone: the   *)
(* pools of the multi-predicate shapes hold no "" field.                   *)
(***************************************************************************)
Fields == {"id", "grp", "age", "name", "", "zzz"}

CmpOps == {"=", "==", ">", ">=", "<", "<="}

Scalars == {Scalar(Num(1)), Scalar(Num(2)), Scalar(Str(<<"a">>))}

Colls ==
    {Coll({Num(1)}), Coll({Num(2), Str(<<"a">>)}), Coll({Null, Str(<<"a", "b">>)})}

Patterns == {Scalar(Str(<<"a">>)), Scalar(Str(<<".">>)), Scalar(Num(1))}

FullPool ==
    { Pred(c, o, v) : c \in Fields, o \in CmpOps, v \in Scalars }
    \cup { Pred(c, o, v) : c \in Fields, o \in {"in", "not in"},
                           v \in Colls \cup {Scalar(Num(1))} }
    \cup { Pred(c, o, v) : c \in Fields, o \in {"contains", "not contains"},
                           v \in Patterns }
    \cup { Pred(c, "~=", Scalar(Num(1))) : c \in Fields }
    \cup { Pred(c, "IN", Coll({Num(1)})) : c \in Fields }

SmallPool ==
    { Pred("age", ">=", Scalar(Num(2))),
      Pred("name", "contains", Scalar(Str(<<"a">>))),
      Pred("id", "=", Scalar(Num(1))),
      Pred("zzz", "=", Scalar(Num(1))) }

MidPool ==
    SmallPool \cup
    { Pred("age", "=", Scalar(Num(1))),
      Pred("name", "not contains", Scalar(Str(<<"a">>))),
      Pred("id", "in", Coll({Num(2), Str(<<"a">>)})),
      Pred("age", "not in", Coll({Num(1)})),
      Pred("name", "in", Coll({Null, Str(<<"a", "b">>)})),
      Pred("grp", "<", Scalar(Str(<<"b">>))),
      Pred("age", "~=", Scalar(Num(1))),
      Pred("name", ">", Scalar(Num(1))),
      Pred("age", "contains", Scalar(Num(1))) }

FalsySpecs == {NoneSpec, FalsySpec, FlatSpec(<<>>)}

(* Non-empty conjunctions.                                                 *)
Conj1(pool) == { <<p>> : p \in pool }

Conj2(pool) == { <<p, q>> : p \in pool, q \in pool }

FlatSpecs ==
    { FlatSpec(c) : c \in Conj1(FullPool) \cup Conj2(MidPool) }

NestedSpecs ==
    { NestedSpec(<<c>>) : c \in Conj1(FullPool) \cup Conj2(MidPool) }
    \cup { NestedSpec(<<c, e>>) : c \in Conj1(MidPool), e \in Conj1(MidPool) }
    \cup { NestedSpec(<<c, e>>) :
             c \in Conj1(SmallPool) \cup Conj2(SmallPool),
             e \in Conj1(SmallPool) \cup Conj2(SmallPool) }
    \cup { NestedSpec(<<c, e, g>>) :
             c \in Conj1(SmallPool), e \in Conj1(SmallPool), g \in Conj1(SmallPool) }

(* Specifications holding an empty conjunction.                            *)
HollowSpecs ==
    { NestedSpec(<<<<>>>>) }
    \cup { NestedSpec(<<<<>>, c>>) : c \in Conj1(SmallPool) }
    \cup { NestedSpec(<<c, <<>>>>) : c \in Conj1(SmallPool) }
    \cup { NestedSpec(<<c, <<>>, e>>) : c \in Conj1(SmallPool), e \in Conj1(SmallPool) }

NoOutcome == Raised("", "", "", 0)

(***************************************************************************)
(* SqlServerTable.describe (src/wolff/sql_server_table_profiler.py): the   *)
(* handling of its `sample` argument, up to the choice of the table the    *)
(* statistics are computed on.  A sample is None, a text, an int or a      *)
(* float; a float is held in quarters (n / 4), which binary floating point *)
(* represents and multiplies exactly at the model's sizes.                 *)
(***************************************************************************)
NoSample == [t |-> "None", s |-> <<>>, n |-> 0]

StrSample(cs) == [t |-> "str", s |-> cs, n |-> 0]

IntSample(n) == [t |-> "int", s |-> <<>>, n |-> n]

FloatSample(q) == [t |-> "float", s |-> <<>>, n |-> q]

(* bool(sample), the test of `if sample:`.                                 *)
SampleTruthy(x) ==
    CASE x.t = "None" -> FALSE
      [] x.t = "str" -> Len(x.s) > 0
      [] x.t = "int" -> x.n # 0
      [] x.t = "float" -> x.n # 0

(* sample[-1] and sample[:-1] are defined for a text only: an int or a     *)
(* float is not subscriptable.                                             *)
Subscriptable(x) == x.t = "str"

LastItem(x) == x.s[Len(x.s)]

ButLast(x) == SubSeq(x.s, 1, Len(x.s) - 1)

DigitChars == {"0", "1", "2", "3", "4", "5", "6", "7", "8", "9"}

DigitValue(c) ==
    CASE c = "0" -> 0 [] c = "1" -> 1 [] c = "2" -> 2 [] c = "3" -> 3
      [] c = "4" -> 4 [] c = "5" -> 5 [] c = "6" -> 6 [] c = "7" -> 7
      [] c = "8" -> 8 [] c = "9" -> 9

AllDigits(cs) == Len(cs) > 0 /\ \A i \in 1..Len(cs) : cs[i] \in DigitChars

RECURSIVE DigitsValue(_)
DigitsValue(cs) ==
    IF Len(cs) = 0 THEN 0
    ELSE 10 * DigitsValue(SubSeq(cs, 1, Len(cs) - 1)) + DigitValue(cs[Len(cs)])

(* int(text): an optional sign and at least one digit, else ValueError.    *)
IsIntLiteral(cs) ==
    IF Len(cs) > 0 /\ cs[1] \in {"-", "+"} THEN AllDigits(Tail(cs)) ELSE AllDigits(cs)

IntOfStr(cs) ==
    IF cs[1] = "-" THEN -DigitsValue(Tail(cs))
    ELSE IF cs[1] = "+" THEN DigitsValue(Tail(cs))
    ELSE DigitsValue(cs)

(* int(num / den) for den > 0: the quotient truncated towards zero.        *)
PyInt(num, den) == IF num >= 0 THEN num \div den ELSE -((-num) \div den)

NoSize == [some |-> FALSE, n |-> 0]

Size(n) == [some |-> TRUE, n |-> n]

(* describe went on to the queries: on `table`, a sample of sample_size    *)
(* rows having been selected into it when sample is truthy.                *)
Proceeds(sample_size, table) ==
    [ok |-> TRUE, exc |-> "", msg |-> "", sample_size |-> sample_size, table |-> table]

Fails(exc, msg) ==
    [ok |-> FALSE, exc |-> exc, msg |-> msg, sample_size |-> NoSize, table |-> ""]

(* sample_size = int(self.shape[0] * int(sample[:-1]) / 100)               *)
PercentSize(rows, x) ==
    IF ~IsIntLiteral(ButLast(x))
    THEN Fails("ValueError", "invalid literal for int()")
    ELSE Proceeds(Size(PyInt(rows * IntOfStr(ButLast(x)), 100)), "#temp_table")

(* The if / elif chain under `if sample:`, its tests in the code's order:  *)
(* sample[-1] == "%" is evaluated first, whatever the type of sample.      *)
SampleSize(rows, x) ==
    IF ~Subscriptable(x) THEN Fails("TypeError", "object is not subscriptable")
    ELSE IF LastItem(x) = "%" THEN PercentSize(rows, x)
    ELSE IF x.t = "float" THEN Proceeds(Size(PyInt(rows * x.n, 4)), "#temp_table")
    ELSE IF x.t = "int" THEN Proceeds(Size(x.n), "#temp_table")
    ELSE Fails("ValueError", "Sample should be expressed as")

(* describe(sample=x) on a table of `rows` rows.                           *)
describe(rows, x) ==
    IF SampleTruthy(x) THEN SampleSize(rows, x) ELSE Proceeds(NoSize, "self.table")

NotDescribed == Fails("", "")

(* The caller's objects as they were when the call was entered.            *)
Snapshot(d, f) == [df |-> d, filters |-> f]

(* The caller's dataset once the call with outcome o is over.  The called  *)
(* code only reads it (index.names, columns, get_level_values, df[col])    *)
(* and builds the result as a new object (df[mask]); the falsy path        *)
(* returns the object itself, unmodified.                                  *)
DatasetAfterInPlace(d, o) == IF o.ret THEN o.out ELSE d

DatasetAfter(d, o) == d

(* The caller's specification once the call is over.  `filters =           *)
(* [filters]` binds the local name to a new list that holds the caller's   *)
(* object; the loops only read it.                                         *)
SpecAfter(f) == f

(***************************************************************************)
(* The state machine: a caller holds a dataset and calls filter_pd once    *)
(* with a specification of one of the accepted shapes.  df and filters are *)
(* the caller's objects; passed is what they were at the call's entry.     *)
(***************************************************************************)
Init ==
    /\ df \in Datasets
    /\ filters = NoneSpec
    /\ pc = "idle"
    /\ outcome = NoOutcome
    /\ passed = Snapshot(df, filters)
    /\ row_count = 0
    /\ sample = NoSample
    /\ described = NotDescribed

Call(f) ==
    /\ pc = "idle"
    /\ passed' = Snapshot(df, f)
    /\ outcome' = filter_pd(df, f)
    /\ filters' = SpecAfter(f)
    /\ df' = DatasetAfter(df, outcome')
    /\ pc' = "done"
    /\ UNCHANGED <<row_count, sample, described>>

CallFalsy == \E f \in FalsySpecs : Call(f)

CallFlat == \E f \in FlatSpecs : Call(f)

CallNested == \E f \in NestedSpecs : Call(f)

CallHollow == \E f \in HollowSpecs : Call(f)

Next == CallFalsy \/ CallFlat \/ CallNested \/ CallHollow

Spec == Init /\ [][Next]_vars

(***************************************************************************)
(* The profiler's state machine: a table of row_count rows is described    *)
(* once, with one of the values a caller may pass as `sample`.             *)
(***************************************************************************)
SampleChars == {"0", "1", "5", "-", "%", "a"}

RECURSIVE Texts(_)
Texts(n) ==
    IF n = 0 THEN { <<>> }
    ELSE Texts(n - 1) \cup { Append(cs, c) : cs \in Texts(n - 1), c \in SampleChars }

FalsySamples == { NoSample, StrSample(<<>>), IntSample(0), FloatSample(0) }

TextSamples == { StrSample(cs) : cs \in Texts(MaxSampleLen) \ { <<>> } }

IntSamples == { IntSample(n) : n \in 1..(MaxTableRows + 1) }

FloatSamples == { FloatSample(q) : q \in 1..6 }

InitDescribe ==
    /\ df = NoDataset
    /\ filters = NoneSpec
    /\ pc = "idle"
    /\ outcome = NoOutcome
    /\ passed = Snapshot(df, filters)
    /\ row_count \in 0..MaxTableRows
    /\ sample = NoSample
    /\ described = NotDescribed

Describe(x) ==
    /\ pc = "idle"
    /\ sample' = x
    /\ described' = describe(row_count, x)
    /\ pc' = "done"
    /\ UNCHANGED <<df, filters, outcome, passed, row_count>>

DescribeWhole == \E x \in FalsySamples : Describe(x)

DescribeText == \E x \in TextSamples : Describe(x)

DescribeInt == \E x \in IntSamples : Describe(x)

DescribeFloat == \E x \in FloatSamples : Describe(x)

NextDescribe == DescribeWhole \/ DescribeText \/ DescribeInt \/ DescribeFloat

SpecDescribe == InitDescribe /\ [][NextDescribe]_vars

(***************************************************************************)
(* Vocabulary of the properties.                                           *)
(***************************************************************************)
Done == pc = "done"

(* The rows of the input a returned dataset holds, as input positions.     *)
RowSet(o) == { o.sel[i] : i \in 1..Len(o.sel) }

(* The call returned a row selection of the input.                         *)
Selected(o) == o.ret /\ o.how = "rows"

(* The caller passed exactly one conjunction, written flat or nested.      *)
OneConjunction(f) ==
    \/ f.shape = "flat" /\ Len(f.flat) > 0
    \/ f.shape = "nested" /\ Len(f.nested) = 1

TheConjunction(f) == IF f.shape = "flat" THEN f.flat ELSE f.nested[1]

IdentityOnEmptyFilter ==
    (Done /\ filters \in FalsySpecs) =>
        /\ outcome.ret
        /\ outcome.out = df
        /\ outcome.sel = AllRows(df)
        /\ outcome.visited = 0

(* filter_pd(D, []) was called on a dataset that has rows.                 *)
IdentityOnEmptyFilterWitness ==
    /\ Done /\ filters = FlatSpec(<<>>) /\ NRows(df) = MaxRows
    /\ outcome.ret /\ outcome.out = df

(* C4: a non-empty flat list of predicates F gives the same result (same   *)
(* rows or same failure) as [F], and a list of conjunctions is evaluated   *)
(* as written: its [0][0] is a predicate, not a string.                    *)
SingleConjunctionNormalization ==
    /\ (Done /\ filters.shape = "flat" /\ Len(filters.flat) > 0) =>
           /\ Item00(filters) = "str"
           /\ outcome = filter_pd(df, NestedSpec(<<filters.flat>>))
    /\ (Done /\ filters.shape = "nested" /\ Len(filters.nested[1]) > 0) =>
           Item00(filters) = "tuple"

(* A flat list of two predicates was filtered and selected some rows but   *)
(* not all.                                                                *)
SingleConjunctionNormalizationWitness ==
    /\ Done /\ filters.shape = "flat" /\ Len(filters.flat) = 2
    /\ Selected(outcome)
    /\ RowSet(outcome) # {} /\ Len(outcome.sel) < NRows(df)

(***************************************************************************)
(* What a field names in a dataset, stated on the dataset alone.           *)
(***************************************************************************)
IsIndexName(d, col) == \E l \in 1..Len(d.index_names) : d.index_names[l] = Name(col)

IsColumnName(d, col) == d.kind = "frame" /\ \E j \in 1..Len(d.columns) : d.columns[j] = col

IsSeriesName(d, col) == d.kind = "series" /\ d.name = Name(col)

Names(d, col) == IsIndexName(d, col) \/ IsColumnName(d, col) \/ IsSeriesName(d, col)

IndexValues(d, col) == d.index[CHOOSE l \in 1..Len(d.index_names) : d.index_names[l] = Name(col)].v

ColumnValues(d, col) == d.data[CHOOSE j \in 1..Len(d.columns) : d.columns[j] = col].v

(* The values of a field by the stated priority: index level, then column, *)
(* then the series itself.                                                 *)
FieldValues(d, col) ==
    IF IsIndexName(d, col) THEN IndexValues(d, col)
    ELSE IF IsColumnName(d, col) THEN ColumnValues(d, col)
    ELSE d.values.v

NoEmptyConjunction(f) ==
    f.shape = "nested" => \A c \in 1..Len(f.nested) : Len(f.nested[c]) > 0

RECURSIVE Flatten(_, _)
Flatten(cs, c) == IF c > Len(cs) THEN <<>> ELSE cs[c] \o Flatten(cs, c + 1)

(* The predicates of a specification in the order they are evaluated.      *)
SpecPreds(f) == IF f.shape = "flat" THEN f.flat ELSE Flatten(f.nested, 1)

SinglePredicate(f) == OneConjunction(f) /\ Len(TheConjunction(f)) = 1

ThePredicate(f) == TheConjunction(f)[1]

Vocabulary ==
    {"=", "==", ">", ">=", "<", "<=", "in", "not in", "contains", "not contains"}

(* C5, as the claim states it, at the position where nothing can fail      *)
(* first: when the first predicate's field is not an index-level name, not *)
(* a column name and not the series name, filter_pd raises the resolution  *)
(* error naming the field and returns no dataset.                          *)
UnresolvableFieldRaises ==
    (/\ Done /\ Truthy(filters) /\ NoEmptyConjunction(filters)
     /\ ~Names(df, SpecPreds(filters)[1].col)) =>
        /\ ~outcome.ret
        /\ outcome.exc = "ValueError" /\ outcome.site = "resolve"
        /\ outcome.arg = SpecPreds(filters)[1].col

(* C6: a predicate whose field names an index level, a column or the       *)
(* series and whose operator token is outside the vocabulary makes         *)
(* filter_pd raise KeyError on that token, with no dataset returned,       *)
(* whenever evaluation gets to it (every predicate before it evaluates).   *)
UnknownOperatorRaises ==
    (Done /\ Truthy(filters) /\ NoEmptyConjunction(filters)) =>
        \A k \in 1..Len(SpecPreds(filters)) :
            (/\ Names(df, SpecPreds(filters)[k].col)
             /\ SpecPreds(filters)[k].op \notin Vocabulary
             /\ \A j \in 1..(k - 1) : EvalPredicate(df, SpecPreds(filters)[j]).exc = "") =>
                /\ ~outcome.ret
                /\ outcome.exc = "KeyError"
                /\ outcome.arg = SpecPreds(filters)[k].op

(* A bad token in second position, after a predicate that evaluated.       *)
UnknownOperatorRaisesWitness ==
    /\ Done /\ Truthy(filters) /\ Len(SpecPreds(filters)) = 2
    /\ Names(df, SpecPreds(filters)[2].col)
    /\ SpecPreds(filters)[2].op \notin Vocabulary
    /\ EvalPredicate(df, SpecPreds(filters)[1]).exc = ""
    /\ NRows(df) > 0
    /\ outcome.exc = "KeyError"

NonNullRows(d, col) == { i \in 1..NRows(d) : ~IsNull(FieldValues(d, col)[i]) }

Counterpart(f, op) ==
    IF f.shape = "flat" THEN FlatSpec(<<[f.flat[1] EXCEPT !.op = op]>>)
    ELSE NestedSpec(<<<<[f.nested[1][1] EXCEPT !.op = op]>>>>)

(* C7 as stated: the rows of `not in` are the complement of the rows of    *)
(* `in` within the rows whose field value is not null, and the rows of     *)
(* `not contains` are the complement of the rows of `contains`.            *)
NegationPairingNonNull ==
    (/\ Done /\ SinglePredicate(filters) /\ Names(df, ThePredicate(filters).col)
     /\ Selected(outcome)) =>
        /\ ThePredicate(filters).op = "in" =>
              LET o == filter_pd(df, Counterpart(filters, "not in"))
              IN  Selected(o) =>
                    RowSet(o) = NonNullRows(df, ThePredicate(filters).col) \ RowSet(outcome)
        /\ ThePredicate(filters).op = "contains" =>
              LET o == filter_pd(df, Counterpart(filters, "not contains"))
              IN  Selected(o) => RowSet(o) = (1..NRows(df)) \ RowSet(outcome)

(* C7, amended: whenever the `in` (`contains`) call returns, the `not in`  *)
(* (`not contains`) call returns too and its rows are the complement of    *)
(* the former's within all rows of the dataset, null rows included.        *)
NegationPairing ==
    (/\ Done /\ SinglePredicate(filters) /\ Names(df, ThePredicate(filters).col)
     /\ Selected(outcome)) =>
        /\ ThePredicate(filters).op = "in" =>
              LET o == filter_pd(df, Counterpart(filters, "not in"))
              IN  Selected(o) /\ RowSet(o) = (1..NRows(df)) \ RowSet(outcome)
        /\ ThePredicate(filters).op = "contains" =>
              LET o == filter_pd(df, Counterpart(filters, "not contains"))
              IN  Selected(o) /\ RowSet(o) = (1..NRows(df)) \ RowSet(outcome)

(* An `in` call on a field with a null row that the operand does not       *)
(* match, and one row that it does.                                        *)
NegationPairingWitness ==
    /\ Done /\ SinglePredicate(filters) /\ Names(df, ThePredicate(filters).col)
    /\ ThePredicate(filters).op = "in"
    /\ Selected(outcome) /\ RowSet(outcome) # {}
    /\ NonNullRows(df, ThePredicate(filters).col) \cup RowSet(outcome) # 1..NRows(df)

(* C8: the field of a predicate is resolved by priority: an index-level    *)
(* name gives the index-level values even when a column or the series has  *)
(* the same name, else a column name gives the column, else the series     *)
(* name gives the series' own values; seen through `=`, `==` and `in`.     *)
FieldResolutionPriority ==
    (/\ Done /\ SinglePredicate(filters) /\ Names(df, ThePredicate(filters).col)) =>
        LET p == ThePredicate(filters)
            xs == FieldValues(df, p.col)
        IN  /\ (p.op \in {"=", "=="} /\ p.val.k = "scalar") =>
                  /\ Selected(outcome)
                  /\ RowSet(outcome) = { i \in 1..NRows(df) : xs[i] = p.val.v }
            /\ (p.op = "in" /\ p.val.k = "list") =>
                  /\ Selected(outcome)
                  /\ RowSet(outcome) = { i \in 1..NRows(df) : xs[i] \in p.val.vs }

(* The field names an index level and also a column or the series, and the *)
(* shadowed values would have selected other rows.                         *)
FieldResolutionPriorityWitness ==
    /\ Done /\ SinglePredicate(filters)
    /\ ThePredicate(filters).op = "=" /\ ThePredicate(filters).val.k = "scalar"
    /\ IsIndexName(df, ThePredicate(filters).col)
    /\ \/ IsColumnName(df, ThePredicate(filters).col)
       \/ IsSeriesName(df, ThePredicate(filters).col)
    /\ Selected(outcome)
    /\ LET p == ThePredicate(filters)
           shadowed == IF IsColumnName(df, p.col) THEN ColumnValues(df, p.col)
                       ELSE df.values.v
       IN  RowSet(outcome) # { i \in 1..NRows(df) : shadowed[i] = p.val.v }

(* C9 as stated: on an unnamed bare series the field "" resolves to the    *)
(* series' own values: no resolution error, and `=` selects by them.       *)
UnnamedSeriesBlankFieldResolves ==
    (/\ Done /\ df.kind = "series" /\ df.name = NoName
     /\ SinglePredicate(filters) /\ ThePredicate(filters).col = "") =>
        /\ outcome.site # "resolve"
        /\ (ThePredicate(filters).op \in {"=", "=="}) =>
              /\ Selected(outcome)
              /\ RowSet(outcome) =
                   { i \in 1..NRows(df) : df.values.v[i] = ThePredicate(filters).val.v }

(* C9, amended: on an unnamed bare series whose index has no level named   *)
(* "", the field "" does not resolve (the series' name is None, not ""):   *)
(* filter_pd raises the resolution error for "" and returns no dataset.    *)
UnnamedSeriesBlankFieldRaises ==
    (/\ Done /\ df.kind = "series" /\ df.name = NoName /\ ~IsIndexName(df, "")
     /\ Truthy(filters) /\ NoEmptyConjunction(filters)
     /\ SpecPreds(filters)[1].col = "") =>
        /\ ~outcome.ret
        /\ outcome.exc = "ValueError" /\ outcome.site = "resolve"
        /\ outcome.arg = ""

(* An unnamed series with rows was filtered on ("", "=", v).               *)
UnnamedSeriesBlankFieldWitness ==
    /\ Done /\ df.kind = "series" /\ df.name = NoName /\ ~IsIndexName(df, "")
    /\ SinglePredicate(filters) /\ ThePredicate(filters).col = ""
    /\ ThePredicate(filters).op = "="
    /\ NRows(df) > 0
    /\ outcome.exc = "ValueError"

(* C10 as stated: whenever a filtering call returns, its mask has one      *)
(* entry per input row and the result holds exactly the input rows whose   *)
(* entry is true, once each, in input order, with the input's columns and  *)
(* index levels.                                                           *)
MaskSelection ==
    (Done /\ Truthy(filters) /\ outcome.ret) =>
        /\ Len(outcome.mask.m) = NRows(df)
        /\ RowSet(outcome) = { i \in 1..NRows(df) : outcome.mask.m[i] = "T" }
        /\ \A k \in 1..(Len(outcome.sel) - 1) : outcome.sel[k] < outcome.sel[k + 1]
        /\ outcome.out.kind = df.kind
        /\ outcome.out.index_names = df.index_names
        /\ outcome.out.columns = df.columns
        /\ outcome.out.name = df.name
        /\ NRows(outcome.out) = Len(outcome.sel)
        /\ \A k \in 1..Len(outcome.sel) :
              /\ \A l \in 1..Len(df.index) :
                    outcome.out.index[l].v[k] = df.index[l].v[outcome.sel[k]]
              /\ \A j \in 1..Len(df.data) :
                    outcome.out.data[j].v[k] = df.data[j].v[outcome.sel[k]]
              /\ df.kind = "series" =>
                    outcome.out.values.v[k] = df.values.v[outcome.sel[k]]

(* The first empty conjunction of a nested specification, 0 if none.       *)
FirstEmpty(f) ==
    IF \E c \in 1..Len(f.nested) : Len(f.nested[c]) = 0
    THEN CHOOSE c \in 1..Len(f.nested) :
            /\ Len(f.nested[c]) = 0
            /\ \A b \in 1..(c - 1) : Len(f.nested[b]) > 0
    ELSE 0

(* C11: a non-empty specification that holds an empty conjunction, in any  *)
(* position, makes filter_pd fail: the call returns no dataset and raises. *)
(* A leading empty conjunction fails at the shape test (IndexError) before *)
(* any predicate is evaluated; a later one fails where its members are     *)
(* combined (TypeError), unless an earlier predicate already raised.       *)
EmptyConjunctionFails ==
    (Done /\ Truthy(filters) /\ ~NoEmptyConjunction(filters)) =>
        /\ ~outcome.ret
        /\ outcome.exc # ""
        /\ outcome.out = NoDataset
        /\ FirstEmpty(filters) = 1 =>
              /\ outcome.exc = "IndexError"
              /\ outcome.site = "normalize"
        /\ FirstEmpty(filters) > 1 =>
              \/ outcome.exc = "TypeError" /\ outcome.site = "reduce"
              \/ outcome.site \in {"resolve", "lookup", "operator"}

(* A specification [[P], []] on a dataset with rows, where P evaluates:    *)
(* the call fails at the reduction of the empty conjunction.               *)
EmptyConjunctionFailsWitness ==
    /\ Done /\ Truthy(filters) /\ filters.shape = "nested"
    /\ Len(filters.nested) = 2
    /\ Len(filters.nested[1]) = 1 /\ Len(filters.nested[2]) = 0
    /\ NRows(df) > 0
    /\ filter_pd(df, NestedSpec(<<filters.nested[1]>>)).ret
    /\ ~outcome.ret /\ outcome.exc = "TypeError" /\ outcome.site = "reduce"

BlankFieldResolvesToDataset ==
    (/\ Done /\ Truthy(filters) /\ NoEmptyConjunction(filters)
     /\ df.kind = "frame"
     /\ ~IsIndexName(df, "") /\ ~IsColumnName(df, "")
     /\ SpecPreds(filters)[1].col = "") =>
        /\ series_name(df) = Name("")
        /\ Resolve(df, "") = [exc |-> "", via |-> "self", obj |-> FrameObj(df.data)]
        /\ ~(outcome.site = "resolve" /\ outcome.arg = "")
        /\ outcome.exc # "ValueError"
        /\ outcome.ret =>
              /\ outcome.how = "where"
              /\ outcome.mask.c = "frame"
              /\ Len(outcome.mask.fm) = Len(df.columns)
              /\ NRows(outcome.out) = NRows(df)

(* A frame with rows filtered by [("", "=", v)]: the call returns.         *)
BlankFieldResolvesToDatasetWitness ==
    /\ Done /\ df.kind = "frame" /\ NRows(df) > 0
    /\ ~IsIndexName(df, "") /\ ~IsColumnName(df, "")
    /\ SinglePredicate(filters) /\ ThePredicate(filters).col = ""
    /\ ThePredicate(filters).op = "="
    /\ outcome.ret /\ outcome.how = "where" /\ outcome.mask.c = "frame"

(* A text "#%": a number followed by the percent sign.                     *)
IsPercentForm(x) ==
    x.t = "str" /\ Len(x.s) > 0 /\ LastItem(x) = "%" /\ IsIntLiteral(ButLast(x))

(* A text that does not end with the percent sign.                         *)
IsOtherForm(x) == x.t = "str" /\ Len(x.s) > 0 /\ LastItem(x) # "%"

(* C14 as stated: describe accepts a truthy sample that is a percent text, *)
(* a float fraction or an int row count, and computes the sample size from *)
(* it (percent of the row count, fraction of the row count, the int        *)
(* itself); for a truthy sample of another form it raises ValueError with  *)
(* the 'Sample should be expressed as' message.                            *)
SampleForms ==
    (Done /\ SampleTruthy(sample)) =>
        /\ IsPercentForm(sample) =>
              /\ described.ok
              /\ described.sample_size
                    = Size(PyInt(row_count * IntOfStr(ButLast(sample)), 100))
        /\ sample.t = "float" =>
              /\ described.ok
              /\ described.sample_size = Size(PyInt(row_count * sample.n, 4))
        /\ sample.t = "int" =>
              /\ described.ok
              /\ described.sample_size = Size(sample.n)
        /\ IsOtherForm(sample) =>
              /\ ~described.ok
              /\ described.exc = "ValueError"
              /\ described.msg = "Sample should be expressed as"

====
